---- MODULE Spec2Model ----
(***************************************************************************)
(* A model of optarg.hpp: run-time default arguments.                      *)
(*                                                                         *)
(*   OptArg<Tag>      an optional argument; value() gives the held value   *)
(*                    or the thread_local default of Tag                   *)
(*   WithDefArg<Tag>  a scoped change of that default: the constructor     *)
(*                    saves the default and merges the new value in, the   *)
(*                    destructor writes the saved value back               *)
(*   WithDefFlags     WithDefArg with a bitwise merge picked by kBitwise   *)
(*                                                                         *)
(* A context is a thread, a slot is a tag class.  The tags are those of    *)
(* the header's documentation: foo_i with type int, bar_i with type        *)
(* CustomDef<int,-1>, baz_i with type CustomDefByFn<int,Init>.             *)
(***************************************************************************)
EXTENDS Integers, Naturals, Sequences, FiniteSets, TLC

\* ---- bounds --------------------------------------------------------------

\* Values passed by callers are 0..MaxVal.
MaxVal == 3
\* At most MaxDepth WithDefArg objects are alive in one thread.
MaxDepth == 2

\* At most MaxArgDepth of them where OptArg objects are read.
MaxArgDepth == 1

\* Values passed by callers are 1..MaxSlotVal where two tags are at work in
\* one thread.
MaxSlotVal == 2

\* ---- program constants ---------------------------------------------------

\* int{}: the value-initialized int of tlDefVal{}.
ValueInit == 0
\* The 2nd template argument of CustomDef<int,-1>.
DefVal == -1
\* The declared size of the kHandleOp array.
kHandleOpSize == 2

Contexts == {"t1", "t2"}
Slots == {"foo_i", "bar_i", "baz_i"}
\* Tags WithDefFlags is used with: their type is a plain integer.
FlagSlots == {"foo_i"}
Values == 0 .. MaxVal
kBitwise == <<"Or", "AndC", "XOr">>
ExitKinds == {"normal", "return", "throw"}

\* Init() of the CustomDefByFn example.
DefFn == -1

\* Value is a class derived from CustomDefBase.
IsCustomDef(s) == s \in {"bar_i", "baz_i"}

\* ---- CustomDef objects ---------------------------------------------------

\* CustomDefTmpl(const T& v): value{v}; a plain Value is the T itself.
ToValue(s, v) == IF IsCustomDef(s) THEN [value |-> v] ELSE v

\* The TValue of a stored Value: its value member, or the Value itself.
TValueOf(s, x) == IF IsCustomDef(s) THEN x.value ELSE x

\* Mutant of ValueInitOf: the defaults are zeroed and no CustomDef constructor
\* runs.
ValueInitZeroed(s) == ToValue(s, 0)

\* Value{}: the default-constructed Value of a tag.
ValueInitOf(s) ==
    CASE s = "bar_i" -> ToValue(s, DefVal)
      [] s = "baz_i" -> ToValue(s, DefFn)
      [] OTHER -> ValueInit

\* ---- bitwise operators on non-negative ints ------------------------------

RECURSIVE BitOr(_, _)
BitOr(a, b) ==
    IF a = 0 THEN b
    ELSE IF b = 0 THEN a
    ELSE (IF a % 2 = 1 \/ b % 2 = 1 THEN 1 ELSE 0) + 2 * BitOr(a \div 2, b \div 2)

RECURSIVE BitAndC(_, _)
BitAndC(a, b) ==
    IF a = 0 THEN 0
    ELSE (IF a % 2 = 1 /\ b % 2 = 0 THEN 1 ELSE 0) + 2 * BitAndC(a \div 2, b \div 2)

RECURSIVE BitXOr(_, _)
BitXOr(a, b) ==
    IF a = 0 THEN b
    ELSE IF b = 0 THEN a
    ELSE (IF a % 2 # b % 2 THEN 1 ELSE 0) + 2 * BitXOr(a \div 2, b \div 2)

\* ---- state ---------------------------------------------------------------

VARIABLES
    tlDefVal,   \* tlDefVal[c]: thread c's thread_local defaults, by tag;
                \* the empty function before the thread has started
    scoped,     \* scoped[c]: the WithDefArg objects alive in thread c, in
                \* order of construction
    arg,        \* arg[c]: the OptArg object thread c is working with
    written,    \* the <<thread, tag>> pairs whose default has been written
    last        \* the call made last and what it returned

vars == <<tlDefVal, scoped, arg, written, last>>

Started(c) == DOMAIN tlDefVal[c] # {}

\* No OptArg object.
NoArg == [tag |-> "none", has |-> FALSE, val |-> 0, moved |-> FALSE,
          cleared |-> FALSE, first |-> << >>]

\* A call: the operation, its thread and tag, the value passed or returned
\* (r, or b for a bool), the merge or the way a scope was left (how), and the
\* objects it destroyed, innermost last.
Call(op, c, s, r, b, how, gone) ==
    [op |-> op, c |-> c, s |-> s, r |-> r, b |-> b, how |-> how, gone |-> gone]

Init ==
    /\ tlDefVal = [c \in Contexts |-> << >>]
    /\ scoped = [c \in Contexts |-> << >>]
    /\ arg = [c \in Contexts |-> NoArg]
    /\ written = {}
    /\ last = Call("none", "none", "none", 0, FALSE, "none", << >>)

\* ---- OptArg --------------------------------------------------------------

\* thread_local V tlDefVal{}: every tag's default of a thread that starts.
ThreadLocals == [s \in Slots |-> ValueInitOf(s)]

\* Mutant of ThreadLocal: the defaults are static but not thread_local, one
\* instance for all the threads that run.
SharedStatic(all, c, store) ==
    [x \in DOMAIN all |-> IF x = c \/ all[x] # << >> THEN store ELSE all[x]]

\* static thread_local: a thread that writes its defaults writes its own
\* instance of them and no other thread's.
ThreadLocal(all, c, store) == [all EXCEPT ![c] = store]

\* static GetDefault(): tlDefVal, or tlDefVal.value for a CustomDef.
GetDefault(store, s) == TValueOf(s, store[s])

\* Mutant of SetDefault: the value goes to an instance of the default that
\* GetDefault() and value() do not read.
SetDefaultElsewhere(store, s, v) == store

\* static SetDefault(v): tlDefVal = v, or tlDefVal.value = v.
SetDefault(store, s, v) ==
    [store EXCEPT ![s] = IF IsCustomDef(s) THEN [@ EXCEPT !.value = v] ELSE v]

\* defaults(): !mOptVal.has_value().
defaults(a) == ~a.has

\* Mutant of value: the default is returned whether a value is held or not.
valueOfDefault(store, a) == TValueOf(a.tag, store[a.tag])

\* Mutant of value: the default is read once and the copy kept with the
\* object is returned from then on.
valueCached(store, a) ==
    IF a.has THEN TValueOf(a.tag, a.val)
    ELSE IF a.first # << >> THEN a.first[1]
    ELSE TValueOf(a.tag, store[a.tag])

\* value() const&: the default when defaults(), else the held value.
value(store, a) ==
    IF defaults(a) THEN TValueOf(a.tag, store[a.tag]) ELSE TValueOf(a.tag, a.val)

\* Mutant of reset: the held value is left in place.
resetKeepsValue(a) == a

\* reset(): mOptVal.reset().
reset(a) == [a EXCEPT !.has = FALSE, !.val = 0, !.moved = FALSE]

\* Mutant of ThreadStart: the thread_local defaults are initialized again
\* whenever the thread comes by their definition.
ThreadRestart(c) ==
    /\ tlDefVal' = ThreadLocal(tlDefVal, c, ThreadLocals)
    /\ last' = Call("ThreadStart", c, "none", 0, FALSE, "none", << >>)
    /\ UNCHANGED <<scoped, arg, written>>

\* A thread starts: its thread_local defaults are initialized, which is where
\* the default constructor of Value runs, and DefFn() with it.
ThreadStart(c) ==
    /\ ~Started(c)
    /\ tlDefVal' = ThreadLocal(tlDefVal, c, ThreadLocals)
    /\ last' = Call("ThreadStart", c, "none", 0, FALSE, "none", << >>)
    /\ UNCHANGED <<scoped, arg, written>>

\* Mutant of NextTask: the thread_local defaults are initialized anew for
\* every task a thread runs.
NextTaskFresh(c, s) ==
    /\ Started(c)
    /\ tlDefVal' = ThreadLocal(tlDefVal, c, ThreadLocals)
    /\ arg' = [arg EXCEPT ![c] = [NoArg EXCEPT !.tag = s]]
    /\ last' = Call("NextTask", c, s, TValueOf(s, tlDefVal[c][s]), FALSE, "none", << >>)
    /\ UNCHANGED <<scoped, written>>

\* A thread of a pool is done with one task and takes the next, a function
\* called with its OptArg<s> left out: the thread is the same, its
\* thread_local defaults are not initialized again, and a WithDefArg that the
\* task before did not destroy is still alive.  The call is remembered with
\* the default the task before left.
NextTask(c, s) ==
    /\ Started(c)
    /\ arg' = [arg EXCEPT ![c] = [NoArg EXCEPT !.tag = s]]
    /\ last' = Call("NextTask", c, s, TValueOf(s, tlDefVal[c][s]), FALSE, "none", << >>)
    /\ UNCHANGED <<tlDefVal, scoped, written>>

\* OptArg<s>::GetDefault() in thread c.
CallGetDefault(c, s) ==
    /\ Started(c)
    /\ last' = Call("GetDefault", c, s, GetDefault(tlDefVal[c], s), FALSE, "none", << >>)
    /\ UNCHANGED <<tlDefVal, scoped, arg, written>>

\* The index of the innermost live WithDefArg of tag s, 0 when there is none.
Innermost(objs, s) ==
    LET I == {i \in 1 .. Len(objs) : objs[i].tag = s}
    IN  IF I = {} THEN 0 ELSE CHOOSE i \in I : \A j \in I : j <= i

\* The index of the outermost live WithDefArg of tag s, 0 when there is none.
Outermost(objs, s) ==
    LET I == {i \in 1 .. Len(objs) : objs[i].tag = s}
    IN  IF I = {} THEN 0 ELSE CHOOSE i \in I : \A j \in I : i <= j

\* Mutant of Disturb: a write to the default goes through to the value saved
\* by the innermost live WithDefArg of the tag, which is reset.
DisturbSnapshot(objs, s) ==
    IF Innermost(objs, s) = 0 THEN objs
    ELSE [objs EXCEPT ![Innermost(objs, s)].exp = << >>,
                      ![Innermost(objs, s)].mSaved = ValueInitOf(s)]

\* A write to the default that no WithDefArg constructor made: the innermost
\* live WithDefArg of the tag no longer knows the default it stands for.
Disturb(objs, s) ==
    IF Innermost(objs, s) = 0 THEN objs
    ELSE [objs EXCEPT ![Innermost(objs, s)].exp = << >>]

\* OptArg<s>::SetDefault(v) in thread c.
CallSetDefault(c, s, v) ==
    /\ Started(c)
    /\ tlDefVal' = ThreadLocal(tlDefVal, c, SetDefault(tlDefVal[c], s, v))
    /\ scoped' = [scoped EXCEPT ![c] = Disturb(@, s)]
    /\ written' = written \cup {<<c, s>>}
    /\ last' = Call("SetDefault", c, s, v, FALSE, "none", << >>)
    /\ UNCHANGED arg

\* OptArg<s>{} or OptArg<s>{std::nullopt}: an argument left out.
OptArgNull(c, s) ==
    /\ Started(c)
    /\ arg' = [arg EXCEPT ![c] = [NoArg EXCEPT !.tag = s]]
    /\ last' = Call("OptArgNull", c, s, 0, FALSE, "none", << >>)
    /\ UNCHANGED <<tlDefVal, scoped, written>>

\* OptArg<s>{v}: an argument passed.
OptArgValue(c, s, v) ==
    /\ Started(c)
    /\ arg' = [arg EXCEPT ![c] =
                  [NoArg EXCEPT !.tag = s, !.has = TRUE, !.val = ToValue(s, v)]]
    /\ last' = Call("OptArgValue", c, s, v, FALSE, "none", << >>)
    /\ UNCHANGED <<tlDefVal, scoped, written>>

\* arg.defaults() in thread c.
CallDefaults(c) ==
    /\ arg[c].tag \in Slots
    /\ last' = Call("defaults", c, arg[c].tag, 0, defaults(arg[c]), "none", << >>)
    /\ UNCHANGED <<tlDefVal, scoped, arg, written>>

\* arg.reset() in thread c.
CallReset(c) ==
    /\ arg[c].tag \in Slots
    /\ arg' = [arg EXCEPT ![c] = [reset(@) EXCEPT !.cleared = TRUE]]
    /\ last' = Call("reset", c, arg[c].tag, 0, FALSE, "none", << >>)
    /\ UNCHANGED <<tlDefVal, scoped, written>>

\* The first value returned for an OptArg object is remembered with it.
Seen(a, r) == IF a.first = << >> THEN [a EXCEPT !.first = <<r>>] ELSE a

\* arg.value() on an lvalue (const&) in thread c.
CallValue(c) ==
    /\ arg[c].tag \in Slots
    /\ LET r == value(tlDefVal[c], arg[c]) IN
        /\ arg' = [arg EXCEPT ![c] = Seen(@, r)]
        /\ last' = Call("value", c, arg[c].tag, r, FALSE, "none", << >>)
    /\ UNCHANGED <<tlDefVal, scoped, written>>

\* Mutant of CallValueMove: the default is moved out of tlDefVal as a held
\* value is, and a value-initialized one is left there.
CallValueMoveSteals(c) ==
    /\ arg[c].tag \in Slots
    /\ LET r == value(tlDefVal[c], arg[c]) IN
        /\ arg' = [arg EXCEPT ![c] =
                      IF defaults(@) THEN Seen(@, r)
                      ELSE [Seen(@, r) EXCEPT !.moved = TRUE]]
        /\ tlDefVal' = IF defaults(arg[c])
                       THEN ThreadLocal(tlDefVal, c,
                                [tlDefVal[c] EXCEPT ![arg[c].tag] =
                                    ToValue(arg[c].tag, ValueInit)])
                       ELSE tlDefVal
        /\ last' = Call("valueMove", c, arg[c].tag, r, FALSE, "none", << >>)
    /\ UNCHANGED <<scoped, written>>

\* std::move(arg).value() (&&) in thread c: a held value is moved out, which
\* leaves a valid but unspecified value behind (the same value as for an int,
\* or an emptied one); a default is copied.
CallValueMove(c) ==
    /\ arg[c].tag \in Slots
    /\ LET r == value(tlDefVal[c], arg[c]) IN
        /\ \E left \in {r, ValueInit} :
              arg' = [arg EXCEPT ![c] =
                        IF defaults(@) THEN Seen(@, r)
                        ELSE [Seen(@, r) EXCEPT !.val = ToValue(arg[c].tag, left),
                                                !.moved = TRUE]]
        /\ last' = Call("valueMove", c, arg[c].tag, r, FALSE, "none", << >>)
    /\ UNCHANGED <<tlDefVal, scoped, written>>

\* ---- WithDefArg ----------------------------------------------------------

\* Mutant of Saved: mSaved is value-initialized, not copied from the default.
SavedValueInit(store, s) == ValueInitOf(s)

\* mSaved{tlDefVal()}: the constructors' member initializer.
Saved(store, s) == store[s]

\* Mutant of Replace: the new value is dropped.
ReplaceKeepsOld(old, new) == old

\* The merge of the one-argument constructors: tlDefVal() = v.
Replace(old, new) == new

\* Mutant of AddMerge: the functor is not called and the new value replaces
\* the default.
AddMergeReplaces(old, new) == new

\* The merge functor of the documentation: old_i += new_i.
AddMerge(old, new) == old + new

\* kHandleOp[i]: the lambdas of the array, by position.
kHandleOp(i, dst, src) ==
    CASE i = 0 -> BitOr(dst, src)
      [] i = 1 -> BitAndC(dst, src)
      [] i = 2 -> BitXOr(dst, src)

\* The position of a kBitwise enumerator.
Ordinal(op) == (CHOOSE i \in 1 .. Len(kBitwise) : kBitwise[i] = op) - 1

\* What kHandleOp[op](dst, src) can leave in dst: the array has kHandleOpSize
\* elements, and an index past its end is a read of no element at all.
FlagOutcomes(op, dst, src) ==
    IF Ordinal(op) < kHandleOpSize
    THEN {kHandleOp(Ordinal(op), dst, src)}
    ELSE Values \cup {kHandleOp(i, dst, src) : i \in 0 .. 2}

\* A WithDefArgBase constructor: save the default, then leave merged there.
\* With the object go what the model remembers of its construction: the
\* default just before it (pre) and, for a replacing one whose default has
\* not been written to directly since, the default it stands for (exp).
Construct(c, s, merged, exp) ==
    /\ Started(c)
    /\ Len(scoped[c]) < MaxDepth
    /\ scoped' = [scoped EXCEPT ![c] =
                     Append(@, [tag |-> s, mSaved |-> Saved(tlDefVal[c], s),
                                pre |-> GetDefault(tlDefVal[c], s), exp |-> exp])]
    /\ tlDefVal' = ThreadLocal(tlDefVal, c,
                                [tlDefVal[c] EXCEPT ![s] = ToValue(s, merged)])
    /\ written' = written \cup {<<c, s>>}
    /\ UNCHANGED arg

\* WithDefArg<s> def{v} in thread c.
WithDefArg(c, s, v) ==
    /\ Construct(c, s, Replace(GetDefault(tlDefVal[c], s), v), <<v>>)
    /\ last' = Call("WithDefArg", c, s, v, FALSE, "Replace", << >>)

\* WithDefArg<s> def{v, mergeFn} in thread c, with the functor that adds.
WithDefArgMerge(c, s, v) ==
    /\ Started(c)
    /\ AddMerge(GetDefault(tlDefVal[c], s), v) <= MaxVal
    /\ Construct(c, s, AddMerge(GetDefault(tlDefVal[c], s), v), << >>)
    /\ last' = Call("WithDefArg", c, s, v, FALSE, "Add", << >>)

\* WithDefFlags<s> def{mask, op} in thread c.
WithDefFlags(c, s, mask, op) ==
    /\ Started(c)
    /\ \E merged \in FlagOutcomes(op, GetDefault(tlDefVal[c], s), mask) :
          Construct(c, s, merged, << >>)
    /\ last' = Call("WithDefFlags", c, s, mask, FALSE, op, << >>)

\* Mutant of kBitwiseDefault: the operation of a WithDefFlags constructed with
\* a mask alone is AndC.
kBitwiseDefaultAndC == "AndC"

\* kBitwise op = kBitwise::Or: the default argument of the constructor.
kBitwiseDefault == "Or"

\* WithDefFlags<s> def{mask} in thread c: the operation is left out.
WithDefFlagsMask(c, s, mask) ==
    /\ Started(c)
    /\ \E merged \in FlagOutcomes(kBitwiseDefault, GetDefault(tlDefVal[c], s), mask) :
          Construct(c, s, merged, << >>)
    /\ last' = Call("WithDefFlags", c, s, mask, FALSE, "omitted", << >>)

\* Mutant of Destroy: the destructor puts the thread's defaults of the other
\* tags back to their starting values.
DestroyAllTags(store, o) ==
    [t \in DOMAIN store |-> IF t = o.tag THEN o.mSaved ELSE ValueInitOf(t)]

\* ~WithDefArgBase(): tlDefVal() = std::move(mSaved).
Destroy(store, o) == [store EXCEPT ![o.tag] = o.mSaved]

\* Mutant of Unwind: the n objects are destroyed first constructed first.
RECURSIVE UnwindOuterFirst(_, _, _)
UnwindOuterFirst(store, objs, n) ==
    IF n = 0 THEN store
    ELSE UnwindOuterFirst(Destroy(store, objs[Len(objs) - n + 1]), objs, n - 1)

\* Mutant of Unwind: only the innermost object is destroyed, the others are
\* dropped without their destructor.
UnwindInnermostOnly(store, objs, n) ==
    IF n = 0 THEN store ELSE Destroy(store, objs[Len(objs)])

\* The innermost n objects of a thread are destroyed, last constructed first.
RECURSIVE Unwind(_, _, _)
Unwind(store, objs, n) ==
    IF n = 0 THEN store
    ELSE Unwind(Destroy(store, objs[Len(objs)]), SubSeq(objs, 1, Len(objs) - 1), n - 1)

\* Control leaves the innermost n scopes of thread c that hold a WithDefArg:
\* one at the end of a block, any number on a return or a throw.
ScopeExit(c, how, n) ==
    /\ Started(c)
    /\ n \in 1 .. Len(scoped[c])
    /\ how = "normal" => n = 1
    /\ tlDefVal' = ThreadLocal(tlDefVal, c, Unwind(tlDefVal[c], scoped[c], n))
    /\ scoped' = [scoped EXCEPT ![c] = SubSeq(@, 1, Len(@) - n)]
    /\ last' = Call("ScopeExit", c, "none", 0, FALSE, how,
                     SubSeq(scoped[c], Len(scoped[c]) - n + 1, Len(scoped[c])))
    /\ UNCHANGED <<arg, written>>

\* Mutant of RemoveAt: an object destroyed before the ones constructed after
\* it hands the value it saved over to the next of them.
RemoveAtHandsOver(objs, i) ==
    [j \in 1 .. Len(objs) - 1 |->
        IF j < i THEN objs[j]
        ELSE IF j = i THEN [objs[j + 1] EXCEPT !.mSaved = objs[i].mSaved]
        ELSE objs[j + 1]]

\* The live objects without the i-th: the others are not touched.
RemoveAt(objs, i) == SubSeq(objs, 1, i - 1) \o SubSeq(objs, i + 1, Len(objs))

\* A write to the default by a destructor that ran out of turn: no live
\* WithDefArg of the tag knows the default it stands for any more.
Stale(objs, s) ==
    [j \in 1 .. Len(objs) |->
        IF objs[j].tag = s THEN [objs[j] EXCEPT !.exp = << >>] ELSE objs[j]]

\* A WithDefArg that is not a local of a block (one held in a std::optional or
\* made by new, say) is destroyed while objects constructed after it are
\* alive: its destructor runs like any other.
DestroyEarly(c, i) ==
    /\ Started(c)
    /\ i \in 1 .. Len(scoped[c]) - 1
    /\ tlDefVal' = ThreadLocal(tlDefVal, c, Destroy(tlDefVal[c], scoped[c][i]))
    /\ scoped' = [scoped EXCEPT ![c] = Stale(RemoveAt(@, i), scoped[c][i].tag)]
    /\ last' = Call("DestroyEarly", c, scoped[c][i].tag, i, FALSE, "none",
                     <<scoped[c][i]>>)
    /\ UNCHANGED <<arg, written>>

\* ---- specifications ------------------------------------------------------

\* One thread, one tag: scoped defaults, merges and direct writes.
Next ==
    \E c \in {"t1"}, s \in FlagSlots :
        \/ ThreadStart(c)
        \/ CallGetDefault(c, s)
        \/ \E v \in Values : CallSetDefault(c, s, v)
        \/ \E v \in Values : WithDefArg(c, s, v)
        \/ \E v \in Values : WithDefArgMerge(c, s, v)
        \/ \E m \in Values, i \in 1 .. Len(kBitwise) : WithDefFlags(c, s, m, kBitwise[i])
        \/ \E how \in ExitKinds, n \in 1 .. MaxDepth : ScopeExit(c, how, n)

Spec == Init /\ [][Next]_vars

\* One thread and one tag, a plain one or a CustomDef one: OptArg objects of
\* the tag are read while its default is set directly and replaced in scopes.
NextArg ==
    \E c \in {"t1"}, s \in {"foo_i", "bar_i"} :
        \/ ThreadStart(c)
        \/ arg[c].tag \in {"none", s} /\ OptArgNull(c, s)
        \/ \E v \in Values : arg[c].tag \in {"none", s} /\ OptArgValue(c, s, v)
        \/ CallDefaults(c)
        \/ CallReset(c)
        \/ CallValue(c)
        \/ CallValueMove(c)
        \/ \E v \in Values : arg[c].tag = s /\ CallSetDefault(c, s, v)
        \/ \E v \in Values :
              arg[c].tag = s /\ Len(scoped[c]) < MaxArgDepth /\ WithDefArg(c, s, v)
        \/ ScopeExit(c, "normal", 1)

SpecArg == Init /\ [][NextArg]_vars

\* Two threads, one tag: each thread sets and reads its default, and one of
\* them replaces it in scopes as well.
NextIso ==
    \E c \in Contexts, s \in {"foo_i"} :
        \/ ThreadStart(c)
        \/ CallGetDefault(c, s)
        \/ \E v \in Values : CallSetDefault(c, s, v)
        \/ \E v \in Values : WithDefArg("t1", s, v)
        \/ ScopeExit("t1", "normal", 1)

SpecIso == Init /\ [][NextIso]_vars

\* One thread, every tag: the defaults a thread starts with.
NextSeed ==
    \E c \in {"t1"}, s \in Slots :
        \/ ThreadStart(c)
        \/ CallGetDefault(c, s)
        \/ OptArgNull(c, s)
        \/ CallValue(c)
        \/ CallValueMove(c)
        \/ \E v \in Values : CallSetDefault(c, s, v)

SpecSeed == Init /\ [][NextSeed]_vars

\* One thread and one tag, the plain one or the CustomDefByFn one: every
\* operation of OptArg, with the default set directly and replaced in scopes.
NextOps ==
    \E c \in {"t1"}, s \in {"foo_i", "baz_i"} :
        \/ ThreadStart(c)
        \/ arg[c].tag \in {"none", s} /\ OptArgNull(c, s)
        \/ \E v \in Values : arg[c].tag \in {"none", s} /\ OptArgValue(c, s, v)
        \/ arg[c].tag = s /\ CallGetDefault(c, s)
        \/ CallDefaults(c)
        \/ CallReset(c)
        \/ CallValue(c)
        \/ CallValueMove(c)
        \/ \E v \in Values : arg[c].tag = s /\ CallSetDefault(c, s, v)
        \/ \E v \in Values :
              arg[c].tag = s /\ Len(scoped[c]) < MaxArgDepth /\ WithDefArg(c, s, v)
        \/ ScopeExit(c, "normal", 1)

SpecOps == Init /\ [][NextOps]_vars

\* One thread, one tag: WithDefArg objects whose lifetimes may overlap without
\* being nested.
NextOverlap ==
    \E c \in {"t1"}, s \in {"foo_i"} :
        \/ ThreadStart(c)
        \/ CallGetDefault(c, s)
        \/ \E v \in Values : CallSetDefault(c, s, v)
        \/ \E v \in Values : WithDefArg(c, s, v)
        \/ \E i \in 1 .. MaxDepth : DestroyEarly(c, i)
        \/ ScopeExit(c, "normal", 1)

SpecOverlap == Init /\ [][NextOverlap]_vars

\* One thread, one tag: WithDefFlags with the operation given and left out.
NextFlags ==
    \E c \in {"t1"}, s \in FlagSlots :
        \/ ThreadStart(c)
        \/ \E v \in Values : CallSetDefault(c, s, v)
        \/ \E m \in Values, i \in 1 .. Len(kBitwise) : WithDefFlags(c, s, m, kBitwise[i])
        \/ \E m \in Values : WithDefFlagsMask(c, s, m)
        \/ ScopeExit(c, "normal", 1)

SpecFlags == Init /\ [][NextFlags]_vars

\* One thread, two tags: the default of each is set directly and replaced in
\* scopes that nest in any order.
NextSlots ==
    \E c \in {"t1"}, s \in {"foo_i", "bar_i"} :
        \/ ThreadStart(c)
        \/ CallGetDefault(c, s)
        \/ \E v \in 1 .. MaxSlotVal : CallSetDefault(c, s, v)
        \/ \E v \in 1 .. MaxSlotVal : WithDefArg(c, s, v)
        \/ ScopeExit(c, "normal", 1)

SpecSlots == Init /\ [][NextSlots]_vars

\* One thread that runs one task after another, each reading an OptArg with
\* no value, setting the default and replacing it in a scope.
NextReuse ==
    \E c \in {"t1"}, s \in {"foo_i", "bar_i"} :
        \/ ThreadStart(c)
        \/ NextTask(c, s)
        \/ CallValue(c)
        \/ CallValueMove(c)
        \/ \E v \in 1 .. MaxSlotVal : CallSetDefault(c, s, v)
        \/ \E v \in 1 .. MaxSlotVal :
              Len(scoped[c]) < MaxArgDepth /\ WithDefArg(c, s, v)
        \/ ScopeExit(c, "normal", 1)

SpecReuse == Init /\ [][NextReuse]_vars

\* ---- scoped defaults ------------------------------------------------------

\* An OptArg of tag s with no value.
Absent(s) == [NoArg EXCEPT !.tag = s]

\* The tags of a sequence of WithDefArg objects.
TagsOf(objs) == {objs[i].tag : i \in 1 .. Len(objs)}

\* C1. Scoping law: when the scopes of a thread are left innermost first and
\* the last live WithDefArg of a tag is gone, GetDefault() of the tag is the
\* default of the moment just before the outermost of them was constructed.
ScopingLaw ==
    last.op = "ScopeExit" =>
        \A s \in TagsOf(last.gone) :
            Innermost(scoped[last.c], s) = 0 =>
                GetDefault(tlDefVal[last.c], s)
                    = last.gone[Outermost(last.gone, s)].pre

\* Two nested replacing WithDefArg of foo_i, with values other than the
\* default 2 they found, have been destroyed together, innermost first.
ScopingLawWitness ==
    /\ last.op = "ScopeExit" /\ last.c = "t1" /\ Len(last.gone) = 2
    /\ scoped["t1"] = << >>
    /\ \A i \in 1 .. 2 : last.gone[i].tag = "foo_i" /\ last.gone[i].exp # << >>
    /\ last.gone[1].pre = 2 /\ last.gone[1].exp = <<1>> /\ last.gone[2].exp = <<3>>
    /\ GetDefault(tlDefVal["t1"], "foo_i") = 2

\* C2. Nested restore chain: while the innermost live replacing WithDefArg of
\* a tag stands, an OptArg with no value gives that object's value; after the
\* innermost object is destroyed it gives the value of the next one out, or,
\* when none is left, the default of before the destroyed one.
NestedRestoreChain ==
    [][\A c \in Contexts : \A s \in Slots :
        LET k == Innermost(scoped'[c], s)
            gone == last'.gone
        IN  /\ (Started(c)' /\ k # 0 /\ scoped'[c][k].exp # << >>) =>
                value(tlDefVal'[c], Absent(s)) = scoped'[c][k].exp[1]
            /\ (last'.op = "ScopeExit" /\ last'.c = c /\ Len(gone) = 1
                    /\ gone[1].tag = s /\ scoped[c] = scoped'[c] \o gone /\ k = 0) =>
                value(tlDefVal'[c], Absent(s)) = gone[1].pre
    ]_vars

\* The inner of two nested replacing WithDefArg of foo_i has been destroyed
\* and the default is the outer one's value again, not the inner one's.
NestedRestoreChainWitness ==
    /\ last.op = "ScopeExit" /\ last.c = "t1" /\ Len(last.gone) = 1
    /\ Len(scoped["t1"]) = 1
    /\ scoped["t1"][1].tag = "foo_i" /\ scoped["t1"][1].exp = <<1>>
    /\ last.gone[1].tag = "foo_i" /\ last.gone[1].exp = <<2>>
    /\ value(tlDefVal["t1"], Absent("foo_i")) = 1

\* C6. Flag-merge laws (the statement of the claim): after WithDefFlags(m, op)
\* on default b the default is b|m for Or, b & ~m for AndC and b^m for XOr.
FlagMergeLaws ==
    last.op = "WithDefFlags" =>
        LET o == scoped[last.c][Len(scoped[last.c])]
            now == GetDefault(tlDefVal[last.c], last.s)
        IN  CASE last.how = "Or" -> now = BitOr(o.pre, last.r)
              [] last.how = "AndC" -> now = BitAndC(o.pre, last.r)
              [] last.how = "XOr" -> now = BitXOr(o.pre, last.r)

\* C8. Restore is a direct write: right after a WithDefArg is destroyed,
\* whatever its merge was and whatever was written to the default while it
\* lived, GetDefault() is the default of the moment it was constructed.
RestoreIsDirectWrite ==
    (last.op = "ScopeExit" /\ Len(last.gone) = 1) =>
        GetDefault(tlDefVal[last.c], last.gone[1].tag) = last.gone[1].pre

\* A WithDefArg that merged, or whose default was set directly while it lived,
\* has been destroyed inside another one, and the default 3 that it found is
\* back although the outer object stands for 1.
RestoreIsDirectWriteWitness ==
    /\ last.op = "ScopeExit" /\ last.c = "t1" /\ Len(last.gone) = 1
    /\ last.gone[1].tag = "foo_i" /\ last.gone[1].exp = << >>
    /\ last.gone[1].pre = 3
    /\ Len(scoped["t1"]) = 1 /\ scoped["t1"][1].tag = "foo_i"
    /\ scoped["t1"][1].pre = 0
    /\ GetDefault(tlDefVal["t1"], "foo_i") = 3

\* C9. Restoration on every exit path: however control leaves the scopes, at
\* the end of a block, by a return or by a throw, each object of those scopes
\* is destroyed once, the others stay, and every tag they changed holds the
\* value saved by the outermost destroyed object of that tag.
RestoredOnEveryExit ==
    [][\A c \in Contexts : \A how \in ExitKinds :
        (last'.op = "ScopeExit" /\ last'.c = c /\ last'.how = how) =>
            /\ Len(last'.gone) >= 1
            /\ scoped[c] = scoped'[c] \o last'.gone
            /\ \A s \in Slots :
                  IF s \in TagsOf(last'.gone)
                  THEN tlDefVal'[c][s] = last'.gone[Outermost(last'.gone, s)].mSaved
                  ELSE tlDefVal'[c][s] = tlDefVal[c][s]
    ]_vars

\* A throw has left two scopes at once, each with a WithDefArg of foo_i, and
\* the default is the one the outer object saved.
RestoredOnEveryExitWitness ==
    /\ last.op = "ScopeExit" /\ last.c = "t1" /\ last.how = "throw"
    /\ Len(last.gone) = 2
    /\ last.gone[1].tag = "foo_i" /\ last.gone[2].tag = "foo_i"
    /\ last.gone[1].mSaved = 1 /\ last.gone[2].mSaved = 3
    /\ tlDefVal["t1"]["foo_i"] = 1

\* ---- optional arguments --------------------------------------------------

\* C3. An OptArg holding v gives v, from value() on an lvalue and from the
\* first value() on an rvalue, whatever the default of its tag is and whatever
\* was set or scoped before the call.
HoldingResolves ==
    [][\A c \in Contexts :
        (arg[c].has /\ ~arg[c].moved /\ last'.c = c
            /\ last'.op \in {"value", "valueMove"}) =>
                last'.r = TValueOf(arg[c].tag, arg[c].val)
    ]_vars

\* An OptArg of the CustomDef tag holding 2 has been moved from and gave 2
\* while a live WithDefArg makes the default 1.
HoldingResolvesWitness ==
    /\ last.op = "valueMove" /\ last.c = "t1" /\ last.s = "bar_i" /\ last.r = 2
    /\ arg["t1"].has /\ arg["t1"].moved /\ arg["t1"].first = <<2>>
    /\ Len(scoped["t1"]) = 1 /\ scoped["t1"][1].tag = "bar_i"
    /\ GetDefault(tlDefVal["t1"], "bar_i") = 1

\* C4. Live-read law: value() of an OptArg with no value returns the default
\* of its tag as it is at the call, so calls before and after a change of the
\* default return the old and the new default.
LiveRead ==
    (last.op \in {"value", "valueMove"} /\ defaults(arg[last.c])) =>
        last.r = GetDefault(tlDefVal[last.c], last.s)

\* An OptArg with no value gave the starting default 0 at its first value()
\* and gives 2 now that the default is 2.
LiveReadWitness ==
    /\ last.op = "value" /\ last.c = "t1" /\ last.s = "foo_i" /\ last.r = 2
    /\ defaults(arg["t1"]) /\ ~arg["t1"].cleared /\ arg["t1"].first = <<0>>
    /\ GetDefault(tlDefVal["t1"], "foo_i") = 2

\* C10. defaults() is true exactly of an OptArg with no value, and reset()
\* leaves any OptArg with no value: from then on defaults() is true and
\* value() returns the default of the tag as it is at the call.
ResetMakesAbsent ==
    \A c \in Contexts :
        /\ (last.op = "defaults" /\ last.c = c) => (last.b <=> ~arg[c].has)
        /\ arg[c].cleared => (~arg[c].has /\ defaults(arg[c]))
        /\ (arg[c].cleared /\ last.c = c /\ last.op \in {"value", "valueMove"}) =>
                last.r = GetDefault(tlDefVal[c], arg[c].tag)

\* An OptArg that gave its held 3 has been reset and gives the default 1.
ResetMakesAbsentWitness ==
    /\ arg["t1"].cleared /\ arg["t1"].first = <<3>> /\ arg["t1"].tag = "foo_i"
    /\ last.op = "value" /\ last.c = "t1" /\ last.r = 1
    /\ GetDefault(tlDefVal["t1"], "foo_i") = 1

\* ---- threads and starting defaults ----------------------------------------

\* C5. Isolation law: a call made in one thread, be it SetDefault(), the
\* construction of a WithDefArg or its destruction, changes neither
\* GetDefault() nor the value() of an OptArg with no value in another thread.
Isolation ==
    [][\A c2 \in Contexts \ {last'.c} :
        Started(c2) =>
            /\ Started(c2)'
            /\ \A s \in Slots :
                  /\ GetDefault(tlDefVal'[c2], s) = GetDefault(tlDefVal[c2], s)
                  /\ value(tlDefVal'[c2], Absent(s)) = value(tlDefVal[c2], Absent(s))
    ]_vars

\* Thread t1 has left the scope of a WithDefArg and has its default 0 back,
\* and the default of thread t2, set to 1, still stands.
IsolationWitness ==
    /\ last.op = "ScopeExit" /\ last.c = "t1" /\ Len(last.gone) = 1
    /\ last.gone[1].exp = <<2>>
    /\ Started("t2") /\ <<"t2", "foo_i">> \in written
    /\ GetDefault(tlDefVal["t1"], "foo_i") = 0
    /\ GetDefault(tlDefVal["t2"], "foo_i") = 1

\* C7. Seeding: in a started thread, until the default of a tag is written,
\* GetDefault() and the value() of an OptArg with no value give 0 for the
\* plain int tag, the constant of CustomDef and the result of the function of
\* CustomDefByFn.
Seeding ==
    \A c \in Contexts : \A s \in Slots :
        (Started(c) /\ <<c, s>> \notin written) =>
            LET seed == CASE s = "foo_i" -> 0
                          [] s = "bar_i" -> DefVal
                          [] s = "baz_i" -> DefFn
            IN  /\ GetDefault(tlDefVal[c], s) = seed
                /\ value(tlDefVal[c], Absent(s)) = seed
                /\ (last.c = c /\ last.s = s
                        /\ last.op \in {"GetDefault", "value", "valueMove"}) =>
                        last.r = seed

\* With the default of foo_i already set to 2, the OptArg of baz_i with no
\* value has given -1, the result of its function.
SeedingWitness ==
    /\ last.op = "value" /\ last.c = "t1" /\ last.s = "baz_i" /\ last.r = -1
    /\ <<"t1", "baz_i">> \notin written /\ <<"t1", "bar_i">> \notin written
    /\ GetDefault(tlDefVal["t1"], "bar_i") = -1
    /\ GetDefault(tlDefVal["t1"], "foo_i") = 2

\* ---- the default constructor of Value -------------------------------------

\* The call last made writes the default of tag s in thread c.
Writes(call, c, s) ==
    /\ call.c = c
    /\ \/ call.op \in {"SetDefault", "WithDefArg", "WithDefFlags"} /\ call.s = s
       \/ call.op = "ScopeExit" /\ s \in TagsOf(call.gone)

SingleEntry ==
    \A c \in Contexts :
        Started(c) =>
            /\ \A s \in Slots :
                  GetDefault(tlDefVal[c], s) = value(tlDefVal[c], Absent(s))
            /\ last.c = c =>
                  LET now == GetDefault(tlDefVal[c], last.s)
                      read == value(tlDefVal[c], Absent(last.s))
                  IN  /\ last.op = "SetDefault" => now = last.r /\ read = last.r
                      /\ (last.op = "WithDefArg" /\ last.how = "Replace") =>
                            now = last.r /\ read = last.r
                      /\ last.op = "GetDefault" => last.r = read
                      /\ (last.op \in {"value", "valueMove"} /\ defaults(arg[c])) =>
                            last.r = now
                      /\ (last.op = "ScopeExit" /\ Len(last.gone) = 1) =>
                            LET o == last.gone[1]
                            IN  /\ GetDefault(tlDefVal[c], o.tag) = TValueOf(o.tag, o.mSaved)
                                /\ value(tlDefVal[c], Absent(o.tag)) = TValueOf(o.tag, o.mSaved)

\* An OptArg of baz_i with no value gave 2 after SetDefault(2), and inside a
\* WithDefArg of 3 GetDefault() has returned 3.
SingleEntryWitness ==
    /\ last.op = "GetDefault" /\ last.c = "t1" /\ last.s = "baz_i" /\ last.r = 3
    /\ arg["t1"].tag = "baz_i" /\ defaults(arg["t1"]) /\ arg["t1"].first = <<2>>
    /\ Len(scoped["t1"]) = 1 /\ scoped["t1"][1].exp = <<3>>
    /\ scoped["t1"][1].pre = 2
    /\ value(tlDefVal["t1"], Absent("baz_i")) = 3

\* ---- construction ---------------------------------------------------------

\* C14. Construction saves, then merges: a WithDefArg constructed with n on a
\* default d holds d as its saved value, and the default is n when no merge
\* function is passed and d + n with the functor that adds.
SaveThenMerge ==
    last.op \in {"WithDefArg", "WithDefFlags"} =>
        LET o == scoped[last.c][Len(scoped[last.c])]
            now == GetDefault(tlDefVal[last.c], last.s)
        IN  /\ o.tag = last.s
            /\ TValueOf(last.s, o.mSaved) = o.pre
            /\ last.how = "Replace" => now = last.r
            /\ last.how = "Add" => now = o.pre + last.r

\* Inside a WithDefArg that replaced the default by 1, a WithDefArg with 2 and
\* the adding functor has been constructed: it saved 1 and the default is 3.
SaveThenMergeWitness ==
    /\ last.op = "WithDefArg" /\ last.c = "t1" /\ last.how = "Add" /\ last.r = 2
    /\ Len(scoped["t1"]) = 2
    /\ scoped["t1"][1].exp = <<1>>
    /\ scoped["t1"][2].tag = "foo_i" /\ scoped["t1"][2].mSaved = 1
    /\ scoped["t1"][2].pre = 1
    /\ GetDefault(tlDefVal["t1"], "foo_i") = 3

\* C15. Or is the operation of a WithDefFlags constructed with a mask alone:
\* on a default b and with mask m it saves b and leaves the default b|m, the
\* one outcome of the constructor called with kBitwise::Or.
OrIsImplicit ==
    (last.op = "WithDefFlags" /\ last.how = "omitted") =>
        LET o == scoped[last.c][Len(scoped[last.c])]
            now == GetDefault(tlDefVal[last.c], last.s)
        IN  /\ o.tag = last.s
            /\ o.mSaved = o.pre
            /\ FlagOutcomes("Or", o.pre, last.r) = {now}
            /\ now = BitOr(o.pre, last.r)

\* On the default 1 a WithDefFlags with the mask 2 alone has been constructed
\* and the default is 3.
OrIsImplicitWitness ==
    /\ last.op = "WithDefFlags" /\ last.c = "t1" /\ last.how = "omitted"
    /\ last.r = 2
    /\ scoped["t1"][Len(scoped["t1"])].pre = 1
    /\ GetDefault(tlDefVal["t1"], "foo_i") = 3

\* ---- lifetimes that are not nested ----------------------------------------

\* C13. WithDefArg lifetimes that overlap without being nested go unnoticed
\* and end with the wrong default.  When A is destroyed while B, constructed
\* after it for the same tag, is alive, the destructor of A runs as ever: the
\* default is what A saved and B keeps the value it saved.  When B is
\* destroyed next the default is what B saved, which for a B constructed right
\* after a replacing A is the value A was given, not the default of before A.
OverlapUndetected ==
    [][\A c \in Contexts :
        /\ (last'.op = "DestroyEarly" /\ last'.c = c) =>
                LET A == last'.gone[1]
                    i == last'.r
                IN  /\ GetDefault(tlDefVal'[c], A.tag) = TValueOf(A.tag, A.mSaved)
                    /\ Len(scoped'[c]) = Len(scoped[c]) - 1
                    /\ \A j \in 1 .. Len(scoped'[c]) :
                          scoped'[c][j].mSaved
                              = scoped[c][IF j < i THEN j ELSE j + 1].mSaved
        /\ (last.op = "DestroyEarly" /\ last.c = c /\ last'.op = "ScopeExit"
                /\ last'.c = c /\ Len(last'.gone) = 1
                /\ last'.gone[1].tag = last.s) =>
                LET A == last.gone[1]
                    B == last'.gone[1]
                    now == GetDefault(tlDefVal'[c], B.tag)
                IN  /\ now = TValueOf(B.tag, B.mSaved)
                    /\ (last.r = Len(scoped[c]) /\ A.exp # << >>) => now = A.exp[1]
    ]_vars

\* A of value 1 was constructed on default 0 and B after it, and A has been
\* destroyed first: the default is 0 while B lives, and B, the only WithDefArg
\* left, will put back the 1 it saved.
OverlapUndetectedWitness ==
    /\ last.op = "DestroyEarly" /\ last.c = "t1" /\ last.r = 1
    /\ last.gone[1].tag = "foo_i" /\ last.gone[1].pre = 0
    /\ last.gone[1].exp = <<1>>
    /\ Len(scoped["t1"]) = 1 /\ scoped["t1"][1].tag = "foo_i"
    /\ scoped["t1"][1].mSaved = 1
    /\ GetDefault(tlDefVal["t1"], "foo_i") = 0

\* ---- a thread that runs several tasks -------------------------------------

\* C17. A thread that is used again keeps its defaults.  When a thread goes
\* from one task to the next nothing is initialized again: the defaults and
\* the live WithDefArg objects are those the task before left, and the first
\* value() of the new task on an OptArg with no value returns the default the
\* task before left, be it the starting one or not.
ReuseLeaks ==
    [][\A c \in Contexts :
        /\ (last'.op = "NextTask" /\ last'.c = c) =>
                /\ tlDefVal'[c] = tlDefVal[c]
                /\ scoped'[c] = scoped[c]
                /\ last'.r = GetDefault(tlDefVal[c], last'.s)
                /\ value(tlDefVal'[c], arg'[c]) = GetDefault(tlDefVal[c], last'.s)
        /\ (last.op = "NextTask" /\ last.c = c /\ last'.c = c
                /\ last'.op \in {"value", "valueMove"}) =>
                last'.r = last.r
    ]_vars

\* The task before set the default of foo_i to 1 and left a WithDefArg of 2
\* alive; the thread has taken the next task, whose OptArg with no value gives
\* 2 and not the starting 0.
ReuseLeaksWitness ==
    /\ last.op = "NextTask" /\ last.c = "t1" /\ last.s = "foo_i" /\ last.r = 2
    /\ Len(scoped["t1"]) = 1 /\ scoped["t1"][1].tag = "foo_i"
    /\ scoped["t1"][1].exp = <<2>> /\ scoped["t1"][1].pre = 1
    /\ defaults(arg["t1"])
    /\ value(tlDefVal["t1"], arg["t1"]) = 2
    /\ ValueInitOf("foo_i") = 0

\* ---- what an operation leaves alone ---------------------------------------

\* C16. A live WithDefArg owns the value it saved: mSaved is set by its
\* constructor to the default of that moment, and no step that leaves the
\* object alive, SetDefault() or the construction or destruction of another
\* WithDefArg of the same tag or of another one, changes it.
SnapshotOwned ==
    [][\A c \in Contexts :
        /\ \A j \in 1 .. Len(scoped[c]) :
              j <= Len(scoped'[c]) =>
                  /\ scoped'[c][j].tag = scoped[c][j].tag
                  /\ scoped'[c][j].mSaved = scoped[c][j].mSaved
        /\ Len(scoped'[c]) > Len(scoped[c]) =>
              /\ Len(scoped'[c]) = Len(scoped[c]) + 1
              /\ LET o == scoped'[c][Len(scoped'[c])]
                 IN  o.mSaved = tlDefVal[c][o.tag]
    ]_vars

\* A WithDefArg of foo_i constructed on the default 1 is alive; the default of
\* foo_i has since been set to 2 and a WithDefArg of bar_i has come and gone:
\* the saved value is 1.
SnapshotOwnedWitness ==
    /\ last.op = "ScopeExit" /\ last.c = "t1" /\ Len(last.gone) = 1
    /\ last.gone[1].tag = "bar_i"
    /\ Len(scoped["t1"]) = 1 /\ scoped["t1"][1].tag = "foo_i"
    /\ scoped["t1"][1].exp = << >> /\ scoped["t1"][1].pre = 1
    /\ scoped["t1"][1].mSaved = 1
    /\ GetDefault(tlDefVal["t1"], "foo_i") = 2

\* C18. The defaults of the other tags are left alone: SetDefault() of a tag,
\* and the construction or the destruction of a WithDefArg of a tag, change
\* the default of no other tag of the thread.
SlotFrame ==
    [][\A c \in Contexts : \A s \in Slots :
        (/\ last'.c = c
         /\ \/ last'.op \in {"SetDefault", "WithDefArg"} /\ last'.s = s
            \/ last'.op = "ScopeExit" /\ TagsOf(last'.gone) = {s}) =>
            \A t \in Slots \ {s} :
                /\ tlDefVal'[c][t] = tlDefVal[c][t]
                /\ GetDefault(tlDefVal'[c], t) = GetDefault(tlDefVal[c], t)
    ]_vars

\* A WithDefArg of foo_i with 2 has been destroyed inside a WithDefArg of
\* bar_i with 2: the default of foo_i is 1 again and that of bar_i is 2.
SlotFrameWitness ==
    /\ last.op = "ScopeExit" /\ last.c = "t1" /\ Len(last.gone) = 1
    /\ last.gone[1].tag = "foo_i" /\ last.gone[1].exp = <<2>>
    /\ Len(scoped["t1"]) = 1 /\ scoped["t1"][1].tag = "bar_i"
    /\ scoped["t1"][1].exp = <<2>>
    /\ GetDefault(tlDefVal["t1"], "foo_i") = 1
    /\ GetDefault(tlDefVal["t1"], "bar_i") = 2

\* C19. Reading leaves the defaults alone: constructing an OptArg with or
\* without a value, defaults(), reset(), GetDefault() and value() on an lvalue
\* or an rvalue change the default of no tag; value() on an rvalue with no
\* value returns a copy of the default, which GetDefault() still returns
\* afterwards.
ReadsLeaveStore ==
    [][\A c \in Contexts :
        (last'.c = c /\ last'.op \in {"OptArgNull", "OptArgValue", "defaults",
                                      "reset", "GetDefault", "value", "valueMove"}) =>
            /\ tlDefVal' = tlDefVal
            /\ scoped' = scoped
            /\ \A s \in Slots :
                  GetDefault(tlDefVal'[c], s) = GetDefault(tlDefVal[c], s)
            /\ (last'.op = "valueMove" /\ defaults(arg[c])) =>
                  /\ last'.r = GetDefault(tlDefVal[c], last'.s)
                  /\ GetDefault(tlDefVal'[c], last'.s) = last'.r
    ]_vars

\* An OptArg of baz_i with no value has been moved from, inside a WithDefArg
\* of 2: it gave 2 and the default is still 2.
ReadsLeaveStoreWitness ==
    /\ last.op = "valueMove" /\ last.c = "t1" /\ last.s = "baz_i" /\ last.r = 2
    /\ defaults(arg["t1"]) /\ ~arg["t1"].moved /\ arg["t1"].first = <<2>>
    /\ Len(scoped["t1"]) = 1 /\ scoped["t1"][1].exp = <<2>>
    /\ scoped["t1"][1].pre = -1
    /\ GetDefault(tlDefVal["t1"], "baz_i") = 2

====
